---- MODULE Spec2Model ----
(***************************************************************************)
(* Model of rwl (ralph-wiggum-loop): the `rwl run` command, the loop of     *)
(* LoopRunner::run, the progress file of ProgressTracker and the quality    *)
(* gates of ValidationRunner.                                               *)
(*                                                                          *)
(* Text is modelled as sequences of tokens: a token is a piece of text that *)
(* the program writes or searches for as a whole.  The progress file is a   *)
(* sequence of lines, a line is a sequence of tokens.  `Marker` is the text *)
(* "## Iteration"; a substring search for it is a search for that token.    *)
(* Every child process (claude, git, sh) is the environment: its outcome is *)
(* chosen nondeterministically by the action that spawns it.                *)
(***************************************************************************)
EXTENDS Integers, Sequences, FiniteSets, TLC

\* ------------------------------------------------------------------------
\* Bounds of the model
\* ------------------------------------------------------------------------
\* Largest loop.max_iterations a configuration file holds.
MaxIter == 2
\* Number of `rwl run` commands issued one after the other.
MaxRuns == 2
\* Longest quality_gates list handed to run_quality_gates on its own.
MaxGates == 3
\* Number of edits of .rwl/rwl.yml by the operator.
MaxEdits == 1

\* ------------------------------------------------------------------------
\* Progress file (src/src/progress.rs)
\* ------------------------------------------------------------------------
Marker == "## Iteration"

\* Plan paths given to `rwl run --plan`: an ordinary one, and one whose
\* file name holds the text "## Iteration".
PlanRefs == { <<"plan.md">>, <<Marker, ".md">> }

\* Utc::now().format(...): one opaque token.
Timestamp == "2026-01-01 00:00:00 UTC"

\* ProgressTracker::init: the header that replaces the file's content.
InitHeader(plan_path) ==
    << <<"# RWL Progress Log">>,
       <<"# Started:", Timestamp>>,
       <<"# Plan:">> \o plan_path,
       <<"# ----------------------------------------">>,
       <<>> >>

\* The entry log_iteration formats for an IterationResult.
Entry(result) ==
    << <<Marker, ToString(result.iteration)>>,
       <<"Timestamp:", Timestamp>>,
       <<"Validation:", IF result.validation_passed THEN "PASSED" ELSE "FAILED">>,
       <<"Promise:", IF result.promise_found THEN "FOUND" ELSE "NOT FOUND">>,
       <<"Summary:", result.summary>>,
       <<>> >>

\* A variant of log_iteration that opens the file for writing, not appending.
log_iteration_Overwrite(content, result) == Entry(result)

\* ProgressTracker::log_iteration: open with create+append, write the entry.
log_iteration(content, result) == content \o Entry(result)

\* Number of occurrences of token t in a line.
RECURSIVE CountIn(_, _)
CountIn(line, t) ==
    IF line = <<>> THEN 0
    ELSE (IF Head(line) = t THEN 1 ELSE 0) + CountIn(Tail(line), t)

\* content.matches(t).count(): occurrences of t anywhere in the content.
RECURSIVE Matches(_, _)
Matches(content, t) ==
    IF content = <<>> THEN 0
    ELSE CountIn(Head(content), t) + Matches(Tail(content), t)

\* ProgressTracker::iteration_count.
iteration_count(exists, content) ==
    IF ~exists THEN 0 ELSE Matches(content, Marker)

\* DateTime::parse_from_str(.., "%Y-%m-%d %H:%M:%S %z") on the text after
\* "# Started:", its " UTC" replaced by " +0000": the date, the time and the
\* offset if the text is a timestamp as init writes it, otherwise nothing.
parse_from_str(text) ==
    IF text = <<Timestamp>> THEN <<"2026-01-01", "00:00:00", "+0000">> ELSE <<>>

\* The Progress read() returns for a file that does not exist.
NoProgress ==
    [started |-> <<>>, plan_path |-> <<>>, iterations |-> <<>>, last_status |-> <<>>]

\* The `for line in content.lines()` loop of read().
RECURSIVE ParseHeader(_, _)
ParseHeader(lines, progress) ==
    IF lines = <<>> THEN progress
    ELSE LET line == Head(lines)
             next == IF line # <<>> /\ Head(line) = "# Started:"
                     THEN [progress EXCEPT !.started =
                              IF parse_from_str(Tail(line)) = <<>> THEN <<>>
                              ELSE <<parse_from_str(Tail(line))>>]
                     ELSE IF line # <<>> /\ Head(line) = "# Plan:"
                     THEN [progress EXCEPT !.plan_path = <<Tail(line)>>]
                     ELSE progress
         IN  ParseHeader(Tail(lines), next)

\* ProgressTracker::read.
read(exists, content) ==
    IF ~exists THEN NoProgress
    ELSE LET progress == ParseHeader(content, NoProgress)
             count == Matches(content, Marker)
         IN  IF count > 0
             THEN [progress EXCEPT !.last_status =
                      << <<ToString(count), " iterations completed">> >>]
             ELSE progress

\* The summary run() derives for the record of an iteration.
Summary(validation_passed, promise_found) ==
    IF validation_passed /\ promise_found THEN "Complete"
    ELSE IF validation_passed THEN "Validation passed, waiting for completion"
    ELSE "Validation failed"

\* The IterationResult run() builds in step 7.
IterationResult(iteration, validation_passed, promise_found) ==
    [ iteration |-> iteration,
      validation_passed |-> validation_passed,
      promise_found |-> promise_found,
      summary |-> Summary(validation_passed, promise_found) ]

\* ------------------------------------------------------------------------
\* Configuration (src/src/config.rs)
\* ------------------------------------------------------------------------
\* Option<T>: None is the empty sequence, Some(x) is <<x>>.
None == <<>>
Some(x) == <<x>>

\* QualityGate values of the four shapes (command?, script?).
GateCommand == [name |-> "g_cmd",     command |-> Some("true"), script |-> None]
GateScript  == [name |-> "g_script",  command |-> None,         script |-> Some("./check.sh")]
GateBoth    == [name |-> "g_both",    command |-> Some("true"), script |-> Some("./check.sh")]
GateNeither == [name |-> "g_neither", command |-> None,         script |-> None]
Gates == {GateCommand, GateScript, GateBoth, GateNeither}

\* Result<T>: Ok(v) and Err(e).
Ok(v)  == [ok |-> TRUE,  val |-> v]
Err(e) == [ok |-> FALSE, val |-> e]

\* A variant of get_command that takes the command when a gate has both.
get_command_PreferCommand(gate) ==
    CASE gate.command # None -> Ok(<<gate.command[1]>>)
      [] gate.command = None /\ gate.script # None -> Ok(<<"bash ", gate.script[1]>>)
      [] OTHER ->
            Err(<<"Gate '", gate.name, "' has neither command nor script">>)

\* QualityGate::get_command: the command to execute, as tokens.
get_command(gate) ==
    CASE gate.command # None /\ gate.script = None -> Ok(<<gate.command[1]>>)
      [] gate.command = None /\ gate.script # None -> Ok(<<"bash ", gate.script[1]>>)
      [] gate.command # None /\ gate.script # None ->
            Err(<<"Gate '", gate.name, "' has both command and script">>)
      [] OTHER ->
            Err(<<"Gate '", gate.name, "' has neither command nor script">>)

\* ------------------------------------------------------------------------
\* Validation and quality gates (src/src/validation.rs)
\* ------------------------------------------------------------------------
\* What a spawned `sh -c <command>` does: it cannot be spawned, or it exits
\* with status zero or non-zero.
ShOutcomes == {"zero", "nonzero", "spawn_error"}

\* ValidationRunner::run_validation / run_gate_command on one outcome.
run_command(command, outcome) ==
    IF outcome = "spawn_error"
    THEN Err(<<"Failed to run command: ">> \o command)
    ELSE Ok([passed |-> outcome = "zero"])

\* A variant of the gate loop that stops at the first gate that fails.
RECURSIVE GateLoop_ShortCircuit(_, _, _, _, _, _)
GateLoop_ShortCircuit(gates, env, i, results, all_passed, ran) ==
    IF i > Len(gates) \/ ~all_passed
    THEN [ret |-> Ok([all_passed |-> all_passed, results |-> results]), ran |-> ran]
    ELSE LET command == get_command(gates[i])
         IN  IF ~command.ok
             THEN [ret |-> Err(command.val), ran |-> ran]
             ELSE LET result == run_command(command.val, env[i])
                  IN  IF ~result.ok
                      THEN [ret |-> Err(result.val),
                            ran |-> Append(ran, [command |-> command.val, exit |-> env[i]])]
                      ELSE GateLoop_ShortCircuit(gates, env, i + 1,
                                    Append(results, <<gates[i].name, result.val.passed>>),
                                    IF result.val.passed THEN all_passed ELSE FALSE,
                                    Append(ran, [command |-> command.val, exit |-> env[i]]))

\* The body of the `for gate in gates` loop of run_quality_gates from gate i
\* on; env[i] is what the i-th gate's command does if it is spawned.
\* `ran` collects the commands handed to sh, in order, each with what it did
\* (the side effect).
RECURSIVE GateLoop(_, _, _, _, _, _)
GateLoop(gates, env, i, results, all_passed, ran) ==
    IF i > Len(gates)
    THEN [ret |-> Ok([all_passed |-> all_passed, results |-> results]), ran |-> ran]
    ELSE LET command == get_command(gates[i])
         IN  IF ~command.ok
             THEN [ret |-> Err(command.val), ran |-> ran]
             ELSE LET result == run_command(command.val, env[i])
                  IN  IF ~result.ok
                      THEN [ret |-> Err(result.val),
                            ran |-> Append(ran, [command |-> command.val, exit |-> env[i]])]
                      ELSE GateLoop(gates, env, i + 1,
                                    Append(results, <<gates[i].name, result.val.passed>>),
                                    IF result.val.passed THEN all_passed ELSE FALSE,
                                    Append(ran, [command |-> command.val, exit |-> env[i]]))

\* A variant of run_quality_gates that reports all_passed whatever the
\* gates did.
run_quality_gates_Lenient(gates, env) ==
    LET g == GateLoop(gates, env, 1, <<>>, TRUE, <<>>)
    IN  IF g.ret.ok
        THEN [g EXCEPT !.ret = Ok([all_passed |-> TRUE, results |-> g.ret.val.results])]
        ELSE g

\* A variant of run_quality_gates for which an empty list has not passed.
run_quality_gates_NeedsGate(gates, env) ==
    GateLoop(gates, env, 1, <<>>, gates # <<>>, <<>>)

\* ValidationRunner::run_quality_gates.
run_quality_gates(gates, env) == GateLoop(gates, env, 1, <<>>, TRUE, <<>>)

\* ------------------------------------------------------------------------
\* Git (src/src/git.rs, LoopRunner::git_auto_commit)
\* ------------------------------------------------------------------------
\* What a `git commit` does, by name: it exits zero, it exits non-zero and
\* reports "nothing to commit" on its stdout (as git does) or on its stderr,
\* or it exits non-zero for another reason.
CommitOutcomes ==
    {"zero", "nothing to commit on stdout", "nothing to commit on stderr", "nonzero"}

\* The Output of the `git commit` process for each of these.
CommitOutput(c) ==
    CASE c = "zero" ->
            [success |-> TRUE, stdout |-> <<"[main 1a2b3c4] ">>, stderr |-> <<>>]
      [] c = "nothing to commit on stdout" ->
            [success |-> FALSE,
             stdout |-> <<"On branch main\n", "nothing to commit", ", working tree clean">>,
             stderr |-> <<>>]
      [] c = "nothing to commit on stderr" ->
            [success |-> FALSE, stdout |-> <<>>,
             stderr |-> <<"nothing to commit", ", working tree clean">>]
      [] OTHER ->
            [success |-> FALSE, stdout |-> <<>>, stderr |-> <<"error: ">>]

\* What the git commands of one auto-commit do: rev-parse succeeds or not,
\* status fails or reports a clean or dirty tree, add exits zero or not,
\* commit does one of CommitOutcomes.
GitEnvs ==
    [ is_repo : BOOLEAN,
      status  : {"nonzero", "clean", "dirty"},
      add     : {"zero", "nonzero"},
      commit  : CommitOutcomes ]

\* A git command that was run, with what it did.
GitRan(command, exit) == [command |-> command, exit |-> exit]

\* A variant of has_changes that reports changes whatever git status says.
has_changes_Always(genv) ==
    IF genv.status = "nonzero" THEN Err(<<"git status failed">>)
    ELSE Ok(TRUE)

\* GitManager::has_changes.
has_changes(genv) ==
    IF genv.status = "nonzero" THEN Err(<<"git status failed">>)
    ELSE Ok(genv.status = "dirty")

\* GitManager::auto_commit; `ran` are the git commands run.
auto_commit(genv, message) ==
    LET add == GitRan(<<"git add">>, genv.add)
        commit == GitRan(<<"git commit">> \o message, genv.commit)
        commit_output == CommitOutput(genv.commit)
    IN  IF genv.add = "nonzero"
        THEN [ret |-> Err(<<"git add failed">>), ran |-> <<add>>]
        ELSE IF ~commit_output.success
        THEN IF CountIn(commit_output.stderr, "nothing to commit") > 0
             THEN [ret |-> Ok(TRUE), ran |-> <<add, commit>>]
             ELSE [ret |-> Err(<<"git commit failed">>), ran |-> <<add, commit>>]
        ELSE [ret |-> Ok(TRUE), ran |-> <<add, commit>>]

\* template.replace("{iteration}", &iteration.to_string())
RECURSIVE Replace(_, _, _)
Replace(template, from, to) ==
    IF template = <<>> THEN <<>>
    ELSE <<IF Head(template) = from THEN to ELSE Head(template)>>
         \o Replace(Tail(template), from, to)

\* LoopRunner::git_auto_commit.
git_auto_commit(iteration, config, genv) ==
    LET rev_parse == GitRan(<<"git rev-parse">>, IF genv.is_repo THEN "zero" ELSE "nonzero")
        status == GitRan(<<"git status">>, genv.status)
    IN  IF ~genv.is_repo
        THEN [ret |-> Ok(TRUE), ran |-> <<rev_parse>>]
        ELSE LET changes == has_changes(genv)
                 pre == <<rev_parse, status>>
             IN  IF ~changes.ok THEN [ret |-> Err(changes.val), ran |-> pre]
                 ELSE IF ~changes.val THEN [ret |-> Ok(TRUE), ran |-> pre]
                 ELSE LET message == Replace(config.commit_message_template,
                                             "{iteration}", ToString(iteration))
                          c == auto_commit(genv, message)
                      IN  [ret |-> c.ret, ran |-> pre \o c.ran]

\* ------------------------------------------------------------------------
\* Configurations of the runs
\* ------------------------------------------------------------------------
CompletionSignal == "<promise>COMPLETE</promise>"

\* quality_gates lists of the configuration files of the runs.
RunGateLists == { <<>>, <<GateCommand, GateScript>>, <<GateScript, GateNeither>> }

\* Config values (the fields run() reads).
Configs ==
    [ max_iterations : 1..MaxIter,
      auto_commit : BOOLEAN,
      quality_gates : RunGateLists,
      completion_signal : {CompletionSignal},
      validation_command : {"otto ci"},
      commit_message_template : {<<"rwl: iteration ", "{iteration}">>} ]

\* What a spawned agent does, as <<exit status, stdout, stderr>>: each exit
\* status with and without the signal; the signal on stdout or on stderr; no
\* signal but the same text in another letter case.
AgentRuns ==
    { <<"zero",    <<"done ", CompletionSignal>>,      <<>> >>,
      <<"zero",    <<"<PROMISE>complete</PROMISE>">>,  <<>> >>,
      <<"nonzero", <<"partial">>,                      <<"error ", CompletionSignal>> >>,
      <<"nonzero", <<>>,                               <<"<promise>complete</promise>">> >> }

\* A variant of find_promise that ignores the letter case of the signal.
find_promise_IgnoreCase(output, config) ==
    \E i \in DOMAIN output :
        output[i] \in {config.completion_signal, "<PROMISE>complete</PROMISE>",
                       "<promise>complete</promise>"}

\* LoopRunner::find_promise: output.contains(signal).
find_promise(output, config) == CountIn(output, config.completion_signal) > 0

\* ------------------------------------------------------------------------
\* State
\* ------------------------------------------------------------------------
VARIABLES
    plan_path,          \* the --plan argument of the operator's commands
    cfgFile,            \* .rwl/rwl.yml: [ok: does it parse, cfg: its Config]
    file_exists,        \* .rwl/progress.txt exists
    content,            \* its content: a sequence of lines
    pc,                 \* where the `rwl run` process is
    runs,               \* number of `rwl run` commands started so far
    edits,              \* number of operator edits of rwl.yml so far
    config,             \* run(): the Config snapshot held in memory
    loop_end,           \* run(): the end of the range start..=max_iterations
    start_iteration,    \* run(): iteration_count + 1
    iteration,          \* run(): the loop variable
    output,             \* run(): the captured agent output of this iteration
    validation_passed,  \* run(): result of step 5
    promise_found,      \* run(): result of step 6
    gate_result,        \* run(): what run_quality_gates returned in step 8
    resolved,           \* what a direct call of get_command returned
    outcome,            \* what run() returned: a LoopOutcome or an error
    steps,              \* processes spawned and file writes of this iteration
    agent_calls,        \* agent invocations of this run (spawned and exited)
    content_at_start,   \* the progress file when the run entered run()
    content_before,     \* the progress file when this iteration began
    progress,           \* what a direct call of ProgressTracker::read returned
    counted,            \* what a direct call of iteration_count returned
    writers             \* the loop processes that share one progress file

vars == << plan_path, cfgFile, file_exists, content, pc, runs, edits, config, loop_end,
           start_iteration, iteration, output, validation_passed, promise_found,
           gate_result, resolved, outcome, steps, agent_calls, content_at_start,
           content_before, progress, counted, writers >>

\* LoopOutcome values, and the error run() propagates with `?`.
NoOutcome == [kind |-> "None", iterations |-> 0, error |-> ""]
Complete(n) == [kind |-> "Complete", iterations |-> n, error |-> ""]
\* LoopOutcome::Stopped { iterations, reason }: a variant of the enum that
\* the code of run() never builds.
Stopped(n, reason) == [kind |-> "Stopped", iterations |-> n, error |-> reason]
\* A variant of the end of the range that is reported as Stopped.
MaxIterations_Stopped(n) == Stopped(n, "max iterations")
MaxIterations(n) == [kind |-> "MaxIterations", iterations |-> n, error |-> ""]
Error(n, e) == [kind |-> "Error", iterations |-> n, error |-> e]
Propagated(e) == [kind |-> "Err", iterations |-> 0, error |-> e]

\* An entry of `steps`: a process spawned (with its arguments and how it
\* ended) or a file access.
Step(op, arg, exit) == [op |-> op, arg |-> arg, exit |-> exit]

\* gate_result before run_quality_gates is called, and the Result it returns:
\* Ok(QualityGateResult) or an error.
NoGateResult == [called |-> FALSE, ok |-> FALSE, all_passed |-> FALSE, results |-> <<>>]
GateResult(ret) ==
    IF ret.ok
    THEN [called |-> TRUE, ok |-> TRUE, all_passed |-> ret.val.all_passed,
          results |-> ret.val.results]
    ELSE [called |-> TRUE, ok |-> FALSE, all_passed |-> FALSE, results |-> <<>>]

\* One `rwl run` process at a time: no second process.
NoWriters == <<>>

\* The per-iteration locals before an iteration has set them.
ResetLocals ==
    /\ output' = <<>>
    /\ validation_passed' = FALSE
    /\ promise_found' = FALSE
    /\ gate_result' = NoGateResult

\* The rwl.yml the first command finds.
FirstConfig ==
    [ max_iterations |-> MaxIter,
      auto_commit |-> TRUE,
      quality_gates |-> <<GateCommand, GateScript>>,
      completion_signal |-> CompletionSignal,
      validation_command |-> "otto ci",
      commit_message_template |-> <<"rwl: iteration ", "{iteration}">> ]

\* After `rwl init`: rwl.yml is written, progress.txt does not exist yet.
Init ==
    /\ plan_path \in PlanRefs
    /\ cfgFile = [ok |-> TRUE, cfg |-> FirstConfig]
    /\ file_exists = FALSE
    /\ content = <<>>
    /\ pc = "idle"
    /\ runs = 0
    /\ edits = 0
    /\ config = cfgFile.cfg
    /\ loop_end = 0
    /\ start_iteration = 0
    /\ iteration = 0
    /\ output = <<>>
    /\ validation_passed = FALSE
    /\ promise_found = FALSE
    /\ gate_result = NoGateResult
    /\ resolved = Err(<<>>)
    /\ outcome = NoOutcome
    /\ steps = <<>>
    /\ agent_calls = 0
    /\ content_at_start = <<>>
    /\ content_before = <<>>
    /\ progress = NoProgress
    /\ counted = 0
    /\ writers = NoWriters

\* ------------------------------------------------------------------------
\* The `rwl run` command up to the loop (commands/run.rs run, runner.rs run)
\* ------------------------------------------------------------------------
\* --max-iterations: absent, or a value that overrides the file's.
MaxOverrides == {None} \cup {Some(m) : m \in 1..MaxIter}

\* Steps 2 of the command: the loaded config with the CLI override applied.
ApplyOverrides(cfg, max_override) ==
    IF max_override = None THEN cfg
    ELSE [cfg EXCEPT !.max_iterations = max_override[1]]

\* A variant of the start that takes a record that says Complete for the
\* end of the work: it starts past every range.
StartIteration_Persisted(exists, text) ==
    IF \E i \in DOMAIN text : text[i] = <<"Summary:", "Complete">>
    THEN MaxIter + 2
    ELSE iteration_count(exists, text) + 1

\* A variant of the start that ignores the store.
StartIteration_FromOne(exists, text) == 1

\* start_iteration of run(): progress.iteration_count()? + 1.
StartIteration(exists, text) == iteration_count(exists, text) + 1

\* A variant of the command that initializes the progress file every time.
NeedsInit_Always(exists) == TRUE

\* commands/run.rs: `if !progress.exists()` guards the call of progress.init.
NeedsInit(exists) == ~exists

\* ProgressTracker::init on a file that holds `text`: fs::write replaces it.
init(text, plan) == InitHeader(plan)

\* The command with a config file that does not parse: load_local fails and
\* the command ends before run() is called.
StartRunBadConfig ==
    /\ pc \in {"idle", "done"}
    /\ runs < MaxRuns
    /\ ~cfgFile.ok
    /\ runs' = runs + 1
    /\ pc' = "done"
    /\ outcome' = [kind |-> "NotRun", iterations |-> 0, error |-> "config"]
    /\ steps' = <<>>
    /\ agent_calls' = 0
    /\ content_at_start' = content
    /\ content_before' = content
    /\ ResetLocals
    /\ UNCHANGED << plan_path, cfgFile, file_exists, content, edits, config, loop_end,
                    start_iteration, iteration, resolved >>
    /\ UNCHANGED << progress, counted >>
    /\ UNCHANGED writers

\* The command from its start to the entry of the loop of run(): load the
\* local config, apply the override, save it, create the progress file if it
\* does not exist, then in run() load the config and count the iterations.
\* `readable`: can progress.txt be read by iteration_count.
StartRunCore(max_override, readable) ==
    /\ pc \in {"idle", "done"}
    /\ runs < MaxRuns
    /\ cfgFile.ok
    /\ LET cfg == ApplyOverrides(cfgFile.cfg, max_override)
           text == IF NeedsInit(file_exists) THEN init(content, plan_path) ELSE content
       IN  /\ cfgFile' = [ok |-> TRUE, cfg |-> cfg]
           /\ file_exists' = TRUE
           /\ content' = text
           /\ content_at_start' = text
           /\ content_before' = text
           /\ config' = cfg
           /\ IF readable
              THEN /\ start_iteration' = StartIteration(TRUE, text)
                   /\ iteration' = StartIteration(TRUE, text)
                   /\ loop_end' = cfg.max_iterations
                   /\ pc' = "loop"
                   /\ outcome' = NoOutcome
              ELSE /\ pc' = "done"
                   /\ outcome' = Propagated("Failed to read progress file")
                   /\ UNCHANGED << start_iteration, iteration, loop_end >>
    /\ runs' = runs + 1
    /\ agent_calls' = 0
    /\ ResetLocals
    /\ UNCHANGED << plan_path, edits, resolved >>
    /\ UNCHANGED << progress, counted >>
    /\ UNCHANGED writers

\* `rwl run`: the command, with the record of the steps starting afresh.
StartRun(max_override, readable) ==
    /\ StartRunCore(max_override, readable)
    /\ steps' = <<>>

\* ------------------------------------------------------------------------
\* The loop of LoopRunner::run
\* ------------------------------------------------------------------------
\* A variant of the range that excludes its end: start..max_iterations.
InRange_Exclusive(n, end) == n < end

\* `for iteration in start_iteration..=max_iterations`: n is in the range.
InRange(n, end) == n <= end

\* A variant that reports the end of the range instead of the snapshot's
\* max_iterations.
LoopExhausted_Entry ==
    /\ pc = "loop"
    /\ ~InRange(iteration, loop_end)
    /\ pc' = "done"
    /\ outcome' = MaxIterations(loop_end)
    /\ UNCHANGED << plan_path, cfgFile, file_exists, content, runs, edits, config, loop_end,
                    start_iteration, iteration, output, validation_passed,
                    promise_found, steps, agent_calls, content_at_start,
                    gate_result, resolved, content_before >>
    /\ UNCHANGED << progress, counted, writers >>

\* The range start..=max_iterations is exhausted: MaxIterations with the
\* max_iterations of the snapshot held now.
LoopExhausted ==
    /\ pc = "loop"
    /\ ~InRange(iteration, loop_end)
    /\ pc' = "done"
    /\ outcome' = MaxIterations(config.max_iterations)
    /\ UNCHANGED << plan_path, cfgFile, file_exists, content, runs, edits, config, loop_end,
                    start_iteration, iteration, output, validation_passed,
                    promise_found, steps, agent_calls, content_at_start,
                    gate_result, resolved, content_before >>
    /\ UNCHANGED << progress, counted >>
    /\ UNCHANGED writers

\* A variant of the reload that falls back to the defaults of the program
\* (two command gates) when the file cannot be loaded.
Reloaded_Defaults(file, previous) ==
    IF file.ok THEN file.cfg
    ELSE [previous EXCEPT !.quality_gates = <<GateCommand, GateCommand>>]

\* A variant of the reload that keeps the snapshot of the start of the run.
Reloaded_Stale(file, previous) == previous

\* Config::load(..).unwrap_or(config.clone())
Reloaded(file, previous) == IF file.ok THEN file.cfg ELSE previous

\* Steps 1 and 2 of an iteration: re-read the config, build the prompt (the
\* template is a constant of the program and always renders).
Reload ==
    /\ pc = "loop"
    /\ InRange(iteration, loop_end)
    /\ config' = Reloaded(cfgFile, config)
    /\ steps' = Append(steps, Step("load config", <<>>, ""))
    /\ content_before' = content
    /\ pc' = "claude"
    /\ UNCHANGED << plan_path, cfgFile, file_exists, content, runs, edits, loop_end,
                    start_iteration, iteration, output, validation_passed,
                    promise_found, outcome, agent_calls, content_at_start,
                    gate_result, resolved >>
    /\ UNCHANGED << progress, counted >>
    /\ UNCHANGED writers

\* A variant of the count reported on a spawn failure that includes the
\* failed attempt.
ErrorIterations_Attempted(n) == n

\* Step 3, run_claude fails: `which` does not find claude, or the spawn fails.
\* run() returns Error with the iterations before this one.
ErrorIterations(n) == n - 1

RunClaudeFails ==
    /\ pc = "claude"
    /\ \E e \in {"claude CLI not found", "Failed to execute claude command"} :
          outcome' = Error(ErrorIterations(iteration), e)
    /\ pc' = "done"
    /\ UNCHANGED << plan_path, cfgFile, file_exists, content, runs, edits, config, loop_end,
                    start_iteration, iteration, output, validation_passed,
                    promise_found, steps, agent_calls, content_at_start,
                    gate_result, resolved, content_before >>
    /\ UNCHANGED << progress, counted >>
    /\ UNCHANGED writers

\* A variant of run_claude for which a non-zero exit of the agent is an
\* error.
run_claude_ExitChecked(a) ==
    IF a[1] = "zero" THEN Ok(a[2] \o <<"\n">> \o a[3])
    ELSE Err("claude exited with a non-zero status")

\* LoopRunner::run_claude once the agent was spawned and has exited as `a`:
\* the output is stdout, a newline, stderr, whatever the exit status.
run_claude(a) == Ok(a[2] \o <<"\n">> \o a[3])

\* Step 3, the agent was spawned and exited with some status: the match of
\* run() on what run_claude returns.
RunClaude ==
    /\ pc = "claude"
    /\ \E a \in AgentRuns :
          LET r == run_claude(a)
          IN  /\ steps' = Append(steps, Step("claude", <<>>, a[1]))
              /\ IF r.ok
                 THEN /\ output' = r.val
                      /\ pc' = "commit"
                      /\ UNCHANGED outcome
                 ELSE /\ outcome' = Error(ErrorIterations(iteration), r.val)
                      /\ pc' = "done"
                      /\ UNCHANGED output
    /\ agent_calls' = agent_calls + 1
    /\ UNCHANGED << plan_path, cfgFile, file_exists, content, runs, edits, config, loop_end,
                    start_iteration, iteration, validation_passed, promise_found,
                    content_at_start, gate_result, resolved,
                    content_before >>
    /\ UNCHANGED << progress, counted >>
    /\ UNCHANGED writers

\* The steps a list of commands leaves in the log.
GitSteps(ran) == [i \in 1..Len(ran) |-> Step("git", ran[i].command, ran[i].exit)]

\* Step 4: if config.git.auto_commit { self.git_auto_commit(..)? }
AutoCommit ==
    /\ pc = "commit"
    /\ IF ~config.auto_commit
       THEN /\ pc' = "validate"
            /\ UNCHANGED << steps, outcome >>
       ELSE \E genv \in GitEnvs :
              LET r == git_auto_commit(iteration, config, genv)
              IN  /\ steps' = steps \o GitSteps(r.ran)
                  /\ IF r.ret.ok
                     THEN pc' = "validate" /\ UNCHANGED outcome
                     ELSE pc' = "done" /\ outcome' = Propagated(r.ret.val[1])
    /\ UNCHANGED << plan_path, cfgFile, file_exists, content, runs, edits, config, loop_end,
                    start_iteration, iteration, output, validation_passed,
                    promise_found, agent_calls, content_at_start,
                    gate_result, resolved, content_before >>
    /\ UNCHANGED << progress, counted >>
    /\ UNCHANGED writers

\* Step 5: self.run_validation(&config)?
RunValidation ==
    /\ pc = "validate"
    /\ \E o \in ShOutcomes :
         LET r == run_command(<<config.validation_command>>, o)
         IN  IF r.ok
             THEN /\ validation_passed' = r.val.passed
                  /\ steps' = Append(steps, Step("validation", <<config.validation_command>>, o))
                  /\ pc' = "log"
                  /\ UNCHANGED outcome
             ELSE /\ pc' = "done"
                  /\ outcome' = Propagated("Failed to run validation command")
                  /\ UNCHANGED << validation_passed, steps >>
    /\ UNCHANGED << plan_path, cfgFile, file_exists, content, runs, edits, config, loop_end,
                    start_iteration, iteration, output, promise_found,
                    agent_calls, content_at_start,
                    gate_result, resolved, content_before >>
    /\ UNCHANGED << progress, counted >>
    /\ UNCHANGED writers

\* A variant of the exit condition that does not look at the signal.
ExitCondition_ValidationOnly(validation, promise) == validation

\* The condition of step 8 under which the quality gates are run.
ExitCondition(validation, promise) == validation /\ promise

GateSteps(ran) == [i \in 1..Len(ran) |-> Step("gate", ran[i].command, ran[i].exit)]

\* The steps of the iteration once step 7 has appended the record of n.
Logged(done, n) == Append(done, Step("append", <<ToString(n)>>, ""))

\* A variant in which the gates are evaluated before the record is appended.
Evaluated_BeforeAppend(logged, ran) ==
    SubSeq(logged, 1, Len(logged) - 1)
      \o << Step("quality gates", <<>>, "") >> \o GateSteps(ran)
      \o << logged[Len(logged)] >>

\* The steps of the iteration once step 8 has evaluated the gates: the
\* evaluation comes after the append, each gate command in the order run.
Evaluated(logged, ran) ==
    Append(logged, Step("quality gates", <<>>, "")) \o GateSteps(ran)

\* Steps 6 to 8: find the promise, build the result, progress.log_iteration?
\* and, if the exit condition holds, run_quality_gates?.
\* `writable`: can progress.txt be opened for append and written.
LogAndCheckExit ==
    /\ pc = "log"
    /\ promise_found' = find_promise(output, config)
    /\ \E writable \in BOOLEAN :
         IF ~writable
         THEN /\ pc' = "done"
              /\ outcome' = Propagated("Failed to write to progress file")
              /\ UNCHANGED << content, file_exists, steps, gate_result >>
         ELSE /\ content' = log_iteration(content,
                      IterationResult(iteration, validation_passed, promise_found'))
              /\ file_exists' = TRUE
              /\ LET logged == Logged(steps, iteration)
                 IN  IF ExitCondition(validation_passed, promise_found')
                     THEN \E env \in [1..Len(config.quality_gates) -> ShOutcomes] :
                            LET g == run_quality_gates(config.quality_gates, env)
                            IN  /\ steps' = Evaluated(logged, g.ran)
                                /\ gate_result' = GateResult(g.ret)
                                /\ IF ~g.ret.ok
                                   THEN pc' = "done" /\ outcome' = Propagated(g.ret.val[1])
                                   ELSE IF g.ret.val.all_passed
                                   THEN pc' = "done" /\ outcome' = Complete(iteration)
                                   ELSE pc' = "sleep" /\ UNCHANGED outcome
                     ELSE /\ steps' = logged
                          /\ pc' = "sleep"
                          /\ UNCHANGED << outcome, gate_result >>
    /\ UNCHANGED << plan_path, cfgFile, runs, edits, config, loop_end, start_iteration,
                    iteration, output, validation_passed, agent_calls,
                    content_at_start, resolved, content_before >>
    /\ UNCHANGED << progress, counted >>
    /\ UNCHANGED writers

\* A variant of the end of the loop body that counts the records of the
\* store again to find the next iteration.
Sleep_Recount ==
    /\ pc = "sleep"
    /\ steps' = IF iteration < config.max_iterations
                THEN << Step("sleep", <<>>, "") >>
                ELSE <<>>
    /\ iteration' = StartIteration(file_exists, content)
    /\ ResetLocals
    /\ pc' = "loop"
    /\ UNCHANGED << plan_path, cfgFile, file_exists, content, runs, edits, config, loop_end,
                    start_iteration, outcome, agent_calls, content_at_start,
                    resolved, content_before >>
    /\ UNCHANGED << progress, counted, writers >>

\* The condition of step 9.
SleepCondition(n, cfg) == n < cfg.max_iterations

\* Step 9 and the end of the loop body: sleep unless this is the last
\* iteration of the snapshot's max_iterations; the locals of the iteration
\* go out of scope and the loop variable advances.  `steps` starts the next
\* iteration with the sleep that precedes it, if any.
Sleep ==
    /\ pc = "sleep"
    /\ steps' = IF SleepCondition(iteration, config)
                THEN << Step("sleep", <<>>, "") >>
                ELSE <<>>
    /\ iteration' = iteration + 1
    /\ ResetLocals
    /\ pc' = "loop"
    /\ UNCHANGED << plan_path, cfgFile, file_exists, content, runs, edits, config, loop_end,
                    start_iteration, outcome, agent_calls, content_at_start,
                    resolved, content_before >>
    /\ UNCHANGED << progress, counted >>
    /\ UNCHANGED writers

\* ------------------------------------------------------------------------
\* The operator
\* ------------------------------------------------------------------------
\* An edit of rwl.yml: the file is left unparseable, or one of its fields is
\* changed.  The file is read by the command's start and by step 1 only, so
\* an edit is placed before the first command or in the middle of an
\* iteration (after validation, before the promise test and the gates).
EditConfig ==
    /\ pc \in {"idle", "log"}
    /\ edits < MaxEdits
    /\ edits' = edits + 1
    /\ \/ cfgFile' = [cfgFile EXCEPT !.ok = FALSE]
       \/ \E m \in 1..MaxIter :
            /\ m \in {cfgFile.cfg.max_iterations - 1, cfgFile.cfg.max_iterations + 1}
            /\ cfgFile' = [ok |-> TRUE, cfg |-> [cfgFile.cfg EXCEPT !.max_iterations = m]]
       \/ cfgFile' = [ok |-> TRUE,
                      cfg |-> [cfgFile.cfg EXCEPT !.auto_commit = ~cfgFile.cfg.auto_commit]]
       \/ \E g \in RunGateLists :
            /\ g # cfgFile.cfg.quality_gates
            /\ cfgFile' = [ok |-> TRUE, cfg |-> [cfgFile.cfg EXCEPT !.quality_gates = g]]
    /\ UNCHANGED << plan_path, file_exists, content, pc, runs, config, loop_end,
                    start_iteration, iteration, output, validation_passed,
                    promise_found, outcome, steps, agent_calls, content_at_start,
                    gate_result, resolved, content_before >>
    /\ UNCHANGED << progress, counted >>
    /\ UNCHANGED writers

Next ==
    \/ StartRunBadConfig
    \/ \E m \in MaxOverrides, readable \in BOOLEAN : StartRun(m, readable)
    \/ LoopExhausted
    \/ Reload
    \/ RunClaudeFails
    \/ RunClaude
    \/ AutoCommit
    \/ RunValidation
    \/ LogAndCheckExit
    \/ Sleep
    \/ EditConfig

Spec == Init /\ [][Next]_vars

\* ------------------------------------------------------------------------
\* The quality gates on their own (the calls the tests of config.rs and
\* validation.rs make): a caller holds a list of gates, resolves single
\* gates with get_command and runs the list with run_quality_gates.
\* ------------------------------------------------------------------------
RECURSIVE SeqsUpTo(_, _)
SeqsUpTo(S, n) ==
    IF n = 0 THEN { <<>> }
    ELSE LET shorter == SeqsUpTo(S, n - 1)
         IN  shorter \cup { Append(q, x) : q \in shorter, x \in S }

InitGates ==
    /\ plan_path = <<"plan.md">>
    /\ cfgFile = [ok |-> TRUE, cfg |-> FirstConfig]
    /\ file_exists = FALSE
    /\ content = <<>>
    /\ pc = "gates"
    /\ runs = 0
    /\ edits = 0
    /\ config \in { [FirstConfig EXCEPT !.quality_gates = g] : g \in SeqsUpTo(Gates, MaxGates) }
    /\ loop_end = 0
    /\ start_iteration = 0
    /\ iteration = 0
    /\ output = <<>>
    /\ validation_passed = FALSE
    /\ promise_found = FALSE
    /\ gate_result = NoGateResult
    /\ resolved = Err(<<>>)
    /\ outcome = NoOutcome
    /\ steps = <<>>
    /\ agent_calls = 0
    /\ content_at_start = <<>>
    /\ content_before = <<>>
    /\ progress = NoProgress
    /\ counted = 0
    /\ writers = NoWriters

\* gate.get_command() on one gate of the list.
CallGetCommand ==
    /\ pc = "gates"
    /\ \E i \in 1..Len(config.quality_gates) :
          /\ resolved' = get_command(config.quality_gates[i])
          /\ steps' = << Step("get_command", <<ToString(i)>>, "") >>
    /\ pc' = "resolved"
    /\ UNCHANGED << plan_path, cfgFile, file_exists, content, runs, edits, config,
                    loop_end, start_iteration, iteration, output, validation_passed,
                    promise_found, gate_result, outcome, agent_calls,
                    content_at_start, content_before >>
    /\ UNCHANGED << progress, counted >>
    /\ UNCHANGED writers

\* runner.run_quality_gates(&gates) on the list.
CallRunQualityGates ==
    /\ pc = "gates"
    /\ \E env \in [1..Len(config.quality_gates) -> ShOutcomes] :
          LET g == run_quality_gates(config.quality_gates, env)
          IN  /\ gate_result' = GateResult(g.ret)
              /\ steps' = GateSteps(g.ran)
    /\ pc' = "returned"
    /\ UNCHANGED << plan_path, cfgFile, file_exists, content, runs, edits, config,
                    loop_end, start_iteration, iteration, output, validation_passed,
                    promise_found, resolved, outcome, agent_calls,
                    content_at_start, content_before >>
    /\ UNCHANGED << progress, counted >>
    /\ UNCHANGED writers

NextGates == CallGetCommand \/ CallRunQualityGates

SpecGates == InitGates /\ [][NextGates]_vars


\* ------------------------------------------------------------------------
\* The progress file on its own (the calls the tests of progress.rs make, and
\* the first lines of run()): a caller holds a ProgressTracker and calls
\* init, log_iteration, read and iteration_count in any order; somebody may
\* cut the file between the calls.  `steps` is the history of the calls.
\* ------------------------------------------------------------------------
\* Longest history of calls.
MaxOps == 5

\* The IterationResult values handed to log_iteration.
StoreResults ==
    { IterationResult(1, TRUE, FALSE), IterationResult(2, FALSE, FALSE) }

\* Where the file is cut: to nothing, after the header or after a whole
\* record (an empty line), or right after the heading line of a record.
TruncationPoints(text) ==
    { k \in 0..(Len(text) - 1) :
        \/ k = 0
        \/ k > 0 /\ text[k] = <<>>
        \/ k > 0 /\ text[k] # <<>> /\ Head(text[k]) = Marker }

InitStore ==
    /\ plan_path = <<"plan.md">>
    /\ cfgFile = [ok |-> TRUE, cfg |-> FirstConfig]
    /\ file_exists = FALSE
    /\ content = <<>>
    /\ pc = "store"
    /\ runs = 0
    /\ edits = 0
    /\ config = FirstConfig
    /\ loop_end = 0
    /\ start_iteration = 0
    /\ iteration = 0
    /\ output = <<>>
    /\ validation_passed = FALSE
    /\ promise_found = FALSE
    /\ gate_result = NoGateResult
    /\ resolved = Err(<<>>)
    /\ outcome = NoOutcome
    /\ steps = <<>>
    /\ agent_calls = 0
    /\ content_at_start = <<>>
    /\ content_before = <<>>
    /\ progress = NoProgress
    /\ counted = 0
    /\ writers = NoWriters

\* tracker.init(plan)
StoreInit ==
    /\ pc = "store" /\ Len(steps) < MaxOps
    /\ \E plan \in PlanRefs :
          /\ content' = init(content, plan)
          /\ plan_path' = plan
          /\ steps' = Append(steps, Step("init", plan, ""))
    /\ file_exists' = TRUE
    /\ content_before' = content
    /\ UNCHANGED << cfgFile, pc, runs, edits, config, loop_end, start_iteration,
                    iteration, output, validation_passed, promise_found, gate_result,
                    resolved, outcome, agent_calls, content_at_start, progress,
                    counted >>
    /\ UNCHANGED writers

\* tracker.log_iteration(&result): the file is created if it does not exist.
StoreAppend ==
    /\ pc = "store" /\ Len(steps) < MaxOps
    /\ \E result \in StoreResults :
          /\ content' = log_iteration(IF file_exists THEN content ELSE <<>>, result)
          /\ steps' = Append(steps, Step("append", <<ToString(result.iteration)>>, ""))
    /\ file_exists' = TRUE
    /\ content_before' = content
    /\ UNCHANGED << plan_path, cfgFile, pc, runs, edits, config, loop_end,
                    start_iteration, iteration, output, validation_passed,
                    promise_found, gate_result, resolved, outcome, agent_calls,
                    content_at_start, progress, counted >>
    /\ UNCHANGED writers

\* A variant of read() that creates the progress file when it is missing.
StoreRead_Creating ==
    /\ pc = "store" /\ Len(steps) < MaxOps
    /\ progress' = read(file_exists, content)
    /\ steps' = Append(steps, Step("read", <<>>, ""))
    /\ content_before' = content
    /\ file_exists' = TRUE
    /\ content' = IF file_exists THEN content ELSE init(content, plan_path)
    /\ UNCHANGED << plan_path, cfgFile, pc, runs, edits, config,
                    loop_end, start_iteration, iteration, output, validation_passed,
                    promise_found, gate_result, resolved, outcome, agent_calls,
                    content_at_start, counted >>
    /\ UNCHANGED writers

\* tracker.read()
StoreRead ==
    /\ pc = "store" /\ Len(steps) < MaxOps
    /\ progress' = read(file_exists, content)
    /\ steps' = Append(steps, Step("read", <<>>, ""))
    /\ content_before' = content
    /\ UNCHANGED << plan_path, cfgFile, file_exists, content, pc, runs, edits, config,
                    loop_end, start_iteration, iteration, output, validation_passed,
                    promise_found, gate_result, resolved, outcome, agent_calls,
                    content_at_start, counted >>
    /\ UNCHANGED writers

\* tracker.iteration_count()
StoreCount ==
    /\ pc = "store" /\ Len(steps) < MaxOps
    /\ counted' = iteration_count(file_exists, content)
    /\ steps' = Append(steps, Step("count", <<>>, ""))
    /\ content_before' = content
    /\ UNCHANGED << plan_path, cfgFile, file_exists, content, pc, runs, edits, config,
                    loop_end, start_iteration, iteration, output, validation_passed,
                    promise_found, gate_result, resolved, outcome, agent_calls,
                    content_at_start, progress >>
    /\ UNCHANGED writers

\* The first lines of run(): start_iteration = iteration_count()? + 1.
StoreResume ==
    /\ pc = "store" /\ Len(steps) < MaxOps
    /\ start_iteration' = StartIteration(file_exists, content)
    /\ steps' = Append(steps, Step("resume", <<>>, ""))
    /\ content_before' = content
    /\ UNCHANGED << plan_path, cfgFile, file_exists, content, pc, runs, edits, config,
                    loop_end, iteration, output, validation_passed,
                    promise_found, gate_result, resolved, outcome, agent_calls,
                    content_at_start, progress, counted >>
    /\ UNCHANGED writers

\* Somebody cuts the file (an editor, `head -n`, `truncate`).
StoreTruncate ==
    /\ pc = "store" /\ Len(steps) < MaxOps
    /\ file_exists
    /\ \E k \in TruncationPoints(content) :
          /\ content' = SubSeq(content, 1, k)
          /\ steps' = Append(steps, Step("truncate", <<ToString(k)>>, ""))
    /\ content_before' = content
    /\ UNCHANGED << plan_path, cfgFile, file_exists, pc, runs, edits, config,
                    loop_end, start_iteration, iteration, output, validation_passed,
                    promise_found, gate_result, resolved, outcome, agent_calls,
                    content_at_start, progress, counted >>
    /\ UNCHANGED writers

NextStore ==
    \/ StoreInit
    \/ StoreAppend
    \/ StoreRead
    \/ StoreCount
    \/ StoreResume
    \/ StoreTruncate

SpecStore == InitStore /\ [][NextStore]_vars

\* ------------------------------------------------------------------------
\* One run of the loop on a store that earlier runs have filled, while the
\* operator changes max_iterations in rwl.yml
\* ------------------------------------------------------------------------
\* The largest max_iterations rwl.yml holds here.
MaxLimit == 3

\* The progress file of a plan once earlier runs have logged k iterations:
\* the header of init, then k records numbered as run() numbers them.
RECURSIVE StoreAfter(_, _)
StoreAfter(plan, k) ==
    IF k = 0 THEN init(<<>>, plan)
    ELSE LET before == StoreAfter(plan, k - 1)
         IN  log_iteration(before,
                 IterationResult(StartIteration(TRUE, before), FALSE, FALSE))

\* rwl.yml holds some max_iterations and one gate, progress.txt holds the
\* header and the records of k earlier iterations.
InitLimit ==
    /\ plan_path \in PlanRefs
    /\ \E m \in 1..MaxLimit :
         cfgFile = [ok |-> TRUE,
                    cfg |-> [FirstConfig EXCEPT !.max_iterations = m,
                                                !.quality_gates = <<GateCommand>>]]
    /\ file_exists = TRUE
    /\ \E k \in 0..MaxLimit : content = StoreAfter(plan_path, k)
    /\ pc = "idle"
    /\ runs = 0
    /\ edits = 0
    /\ config = cfgFile.cfg
    /\ loop_end = 0
    /\ start_iteration = 0
    /\ iteration = 0
    /\ output = <<>>
    /\ validation_passed = FALSE
    /\ promise_found = FALSE
    /\ gate_result = NoGateResult
    /\ resolved = Err(<<>>)
    /\ outcome = NoOutcome
    /\ steps = <<>>
    /\ agent_calls = 0
    /\ content_at_start = <<>>
    /\ content_before = <<>>
    /\ progress = NoProgress
    /\ counted = 0
    /\ writers = NoWriters

\* The one `rwl run` of this specification, without --max-iterations.
StartOnce ==
    /\ runs = 0
    /\ StartRun(None, TRUE)

\* The operator raises or lowers max_iterations in rwl.yml during an iteration.
EditLimit ==
    /\ pc = "log"
    /\ edits < MaxEdits
    /\ cfgFile.ok
    /\ edits' = edits + 1
    /\ \E m \in 1..MaxLimit :
         /\ m \in {cfgFile.cfg.max_iterations - 1, cfgFile.cfg.max_iterations + 1}
         /\ cfgFile' = [ok |-> TRUE, cfg |-> [cfgFile.cfg EXCEPT !.max_iterations = m]]
    /\ UNCHANGED << plan_path, file_exists, content, pc, runs, config, loop_end,
                    start_iteration, iteration, output, validation_passed,
                    promise_found, outcome, steps, agent_calls, content_at_start,
                    gate_result, resolved, content_before >>
    /\ UNCHANGED << progress, counted >>
    /\ UNCHANGED writers

\* The steps run() takes by itself once the command has started it.
LoopSteps ==
    \/ LoopExhausted
    \/ Reload
    \/ RunClaudeFails
    \/ RunClaude
    \/ AutoCommit
    \/ RunValidation
    \/ LogAndCheckExit
    \/ Sleep

NextLimit ==
    \/ StartOnce
    \/ LoopSteps
    \/ EditLimit

SpecLimit == InitLimit /\ [][NextLimit]_vars

\* Every subprocess (agent, git, validation, gate) exits and the sleep ends:
\* a step of the loop that can be taken is taken.
SpecLimitFair == SpecLimit /\ WF_vars(LoopSteps)

\* ------------------------------------------------------------------------
\* The progress file edited by hand: somebody garbles or removes header
\* lines of a file the program wrote, then the file is read
\* ------------------------------------------------------------------------
HeaderEdits == {"garble started", "remove started", "remove plan"}

\* The first line of a text that starts with token t, 0 if there is none.
LineOf(text, t) ==
    IF \E i \in DOMAIN text : text[i] # <<>> /\ Head(text[i]) = t
    THEN CHOOSE i \in DOMAIN text :
            /\ text[i] # <<>> /\ Head(text[i]) = t
            /\ \A j \in 1..(i - 1) : text[j] = <<>> \/ Head(text[j]) # t
    ELSE 0

Without(text, i) == SubSeq(text, 1, i - 1) \o SubSeq(text, i + 1, Len(text))

\* The file after the edit.
Edited(text, edit) ==
    LET s == LineOf(text, "# Started:")
        p == LineOf(text, "# Plan:")
    IN  CASE edit = "garble started" ->
               IF s = 0 THEN text ELSE [text EXCEPT ![s] = <<"# Started:", "yesterday">>]
          [] edit = "remove started" -> IF s = 0 THEN text ELSE Without(text, s)
          [] edit = "remove plan"    -> IF p = 0 THEN text ELSE Without(text, p)

\* A progress file as init and k iterations have left it.
InitHand ==
    /\ plan_path \in PlanRefs
    /\ cfgFile = [ok |-> TRUE, cfg |-> FirstConfig]
    /\ file_exists = TRUE
    /\ \E k \in 0..MaxIter : content = StoreAfter(plan_path, k)
    /\ pc = "store"
    /\ runs = 0
    /\ edits = 0
    /\ config = FirstConfig
    /\ loop_end = 0
    /\ start_iteration = 0
    /\ iteration = 0
    /\ output = <<>>
    /\ validation_passed = FALSE
    /\ promise_found = FALSE
    /\ gate_result = NoGateResult
    /\ resolved = Err(<<>>)
    /\ outcome = NoOutcome
    /\ steps = <<>>
    /\ agent_calls = 0
    /\ content_at_start = content
    /\ content_before = content
    /\ progress = NoProgress
    /\ counted = 0
    /\ writers = NoWriters

HandEdit ==
    /\ pc = "store" /\ Len(steps) < MaxOps
    /\ \E edit \in HeaderEdits :
          /\ content' = Edited(content, edit)
          /\ steps' = Append(steps, Step("edit", <<edit>>, ""))
    /\ content_before' = content
    /\ UNCHANGED << plan_path, cfgFile, file_exists, pc, runs, edits, config,
                    loop_end, start_iteration, iteration, output, validation_passed,
                    promise_found, gate_result, resolved, outcome, agent_calls,
                    content_at_start, progress, counted >>
    /\ UNCHANGED writers

NextHand ==
    \/ HandEdit
    \/ StoreRead
    \/ StoreCount

SpecHand == InitHand /\ [][NextHand]_vars

\* ------------------------------------------------------------------------
\* Two `rwl run` processes on one progress file: each is the loop of run()
\* reduced to what it does with the file (count once, then append a record
\* per iteration); nothing in progress.rs locks the file
\* ------------------------------------------------------------------------
Procs == {1, 2}

InitWriters ==
    /\ plan_path \in PlanRefs
    /\ cfgFile = [ok |-> TRUE, cfg |-> FirstConfig]
    /\ file_exists = TRUE
    /\ \E k \in 0..1 : content = StoreAfter(plan_path, k)
    /\ pc = "writers"
    /\ runs = 0
    /\ edits = 0
    /\ config = FirstConfig
    /\ loop_end = 0
    /\ start_iteration = 0
    /\ iteration = 0
    /\ output = <<>>
    /\ validation_passed = FALSE
    /\ promise_found = FALSE
    /\ gate_result = NoGateResult
    /\ resolved = Err(<<>>)
    /\ outcome = NoOutcome
    /\ steps = <<>>
    /\ agent_calls = 0
    /\ content_at_start = content
    /\ content_before = content
    /\ progress = NoProgress
    /\ counted = 0
    /\ writers = [p \in Procs |->
                    [pc |-> "new", start |-> 0, iteration |-> 0, loop_end |-> 0]]

WritersUnchanged ==
    UNCHANGED << plan_path, cfgFile, file_exists, pc, runs, edits, config, loop_end,
                 start_iteration, iteration, output, validation_passed,
                 promise_found, gate_result, resolved, outcome, agent_calls,
                 content_at_start, content_before, progress, counted >>

\* Process p enters run(): it loads the config and counts the iterations of
\* the file as it is now.
WriterStart(p) ==
    /\ pc = "writers"
    /\ writers[p].pc = "new"
    /\ LET start == StartIteration(file_exists, content)
       IN  /\ writers' = [writers EXCEPT ![p] =
                            [pc |-> "loop", start |-> start, iteration |-> start,
                             loop_end |-> config.max_iterations]]
           /\ steps' = Append(steps, Step("start", <<ToString(p)>>, ToString(start)))
    /\ UNCHANGED content
    /\ WritersUnchanged

\* Process p runs one iteration to its step 7: the record of its own loop
\* variable is appended to the file as it is now.
WriterIterate(p) ==
    /\ pc = "writers"
    /\ writers[p].pc = "loop"
    /\ writers[p].iteration <= writers[p].loop_end
    /\ \E validation \in BOOLEAN :
          content' = log_iteration(content,
                        IterationResult(writers[p].iteration, validation, FALSE))
    /\ steps' = Append(steps,
                    Step("append", <<ToString(writers[p].iteration)>>, ToString(p)))
    /\ writers' = [writers EXCEPT ![p].iteration = @ + 1]
    /\ WritersUnchanged

\* Process p cannot spawn its agent: it returns Error.
WriterFails(p) ==
    /\ pc = "writers"
    /\ writers[p].pc = "loop"
    /\ writers[p].iteration <= writers[p].loop_end
    /\ writers' = [writers EXCEPT ![p].pc = "done"]
    /\ steps' = Append(steps, Step("return", <<ToString(p)>>, "Error"))
    /\ UNCHANGED content
    /\ WritersUnchanged

\* Process p has exhausted its range: it returns MaxIterations.
WriterReturns(p) ==
    /\ pc = "writers"
    /\ writers[p].pc = "loop"
    /\ writers[p].iteration > writers[p].loop_end
    /\ writers' = [writers EXCEPT ![p].pc = "done"]
    /\ steps' = Append(steps, Step("return", <<ToString(p)>>, "MaxIterations"))
    /\ UNCHANGED content
    /\ WritersUnchanged

NextWriters ==
    \E p \in Procs :
        \/ WriterStart(p)
        \/ WriterIterate(p)
        \/ WriterFails(p)
        \/ WriterReturns(p)

SpecWriters == InitWriters /\ [][NextWriters]_vars

\* ------------------------------------------------------------------------
\* A run that is started again: after a run that returned Complete, or after
\* a run that stopped between the agent invocation of an iteration and the
\* append of its record (an error propagated by `?`, or the process killed).
\* `steps` is kept over the restart: it holds the last iteration of the
\* earlier run, the step "rwl run", then the steps of the new run.
\* ------------------------------------------------------------------------
Killed == [kind |-> "Killed", iterations |-> 0, error |-> ""]

\* The steps since the last start of the command.
RECURSIVE SinceStart(_)
SinceStart(done) ==
    IF done = <<>> THEN <<>>
    ELSE IF done[Len(done)].op = "rwl run" THEN <<>>
    ELSE Append(SinceStart(SubSeq(done, 1, Len(done) - 1)), done[Len(done)])

\* The run has invoked the agent in its current iteration and has not
\* appended the record of that iteration.
AgentRanNoRecord ==
    /\ \E i \in DOMAIN SinceStart(steps) : SinceStart(steps)[i].op = "claude"
    /\ \A i \in DOMAIN SinceStart(steps) : SinceStart(steps)[i].op # "append"

\* The process is killed (SIGKILL, power loss) while it is between the agent
\* invocation and the append: nothing is written, nothing is returned.
Kill ==
    /\ pc \in {"commit", "validate", "log"}
    /\ pc' = "done"
    /\ outcome' = Killed
    /\ UNCHANGED << plan_path, cfgFile, file_exists, content, runs, edits, config, loop_end,
                    start_iteration, iteration, output, validation_passed,
                    promise_found, steps, agent_calls, content_at_start,
                    gate_result, resolved, content_before >>
    /\ UNCHANGED << progress, counted, writers >>

\* `rwl run` once more, after Complete or after a stop before the append.
StartAgain ==
    /\ runs = 1
    /\ pc = "done"
    /\ outcome.kind = "Complete" \/ AgentRanNoRecord
    /\ StartRunCore(None, TRUE)
    /\ steps' = Append(steps, Step("rwl run", <<>>, ""))

NextRestart ==
    \/ StartOnce
    \/ LoopSteps
    \/ Kill
    \/ StartAgain

SpecRestart == Init /\ [][NextRestart]_vars

\* ------------------------------------------------------------------------
\* Runs during which somebody else changes the progress file: records are
\* cut off, or a record is added (an editor, another tool)
\* ------------------------------------------------------------------------
\* What the file is changed to: the header alone, or the file with the
\* record of one more iteration appended by somebody else.
Tampered(text) ==
    { SubSeq(text, 1, Len(InitHeader(plan_path))),
      log_iteration(text, IterationResult(StartIteration(TRUE, text), FALSE, FALSE)) }
       \ { text }

\* The change happens while the run is in an iteration, after its agent.
Tamper ==
    /\ pc \in {"commit", "log"}
    /\ edits < MaxEdits
    /\ edits' = edits + 1
    /\ \E text \in Tampered(content) : content' = text
    /\ UNCHANGED << plan_path, cfgFile, file_exists, pc, runs, config, loop_end,
                    start_iteration, iteration, output, validation_passed,
                    promise_found, outcome, steps, agent_calls, content_at_start,
                    gate_result, resolved, content_before >>
    /\ UNCHANGED << progress, counted, writers >>

\* `rwl run`, without --max-iterations.
StartPlain == StartRun(None, TRUE)

NextTamper ==
    \/ StartPlain
    \/ LoopSteps
    \/ Tamper

SpecTamper == Init /\ [][NextTamper]_vars

\* ------------------------------------------------------------------------
\* Vocabulary of the properties
\* ------------------------------------------------------------------------
\* The numbers of the records of a progress file, in file order: a record
\* is the block that starts with a line "## Iteration <n>".
RECURSIVE RecordNumbers(_)
RecordNumbers(text) ==
    IF text = <<>> THEN <<>>
    ELSE (IF Head(text) # <<>> /\ Head(Head(text)) = Marker
          THEN << Head(text)[2] >> ELSE <<>>) \o RecordNumbers(Tail(text))

NumRecords(text) == Len(RecordNumbers(text))

\* The numbers 1, 2, ..., n as the file writes them.
Numbered(n) == [i \in 1..n |-> ToString(i)]

\* The lines the current iteration has added to the progress file.
AddedLines == { content[i] : i \in (Len(content_before) + 1)..Len(content) }

HasStep(op) == \E i \in DOMAIN steps : steps[i].op = op

\* run() was entered by the current command and read the progress file.
RunEntered ==
    /\ pc \in {"loop", "claude", "commit", "validate", "log", "sleep", "done"}
    /\ outcome.kind # "NotRun"
    /\ outcome.error # "Failed to read progress file"

\* Facts of the current iteration, read off what it did.
ValidationExitedZero ==
    \E i \in DOMAIN steps : steps[i].op = "validation" /\ steps[i].exit = "zero"

SignalInOutput == \E i \in DOMAIN output : output[i] = config.completion_signal

GateExits == SelectSeq(steps, LAMBDA st : st.op = "gate")

EveryGatePassed ==
    /\ Len(GateExits) = Len(config.quality_gates)
    /\ \A i \in DOMAIN GateExits : GateExits[i].exit = "zero"

GitErrors == {"git status failed", "git add failed", "git commit failed"}

\* ------------------------------------------------------------------------
\* C1
\* ------------------------------------------------------------------------
\* C1: a run that starts on a store holding N records starts at iteration
\* N+1, and the records of the store are numbered 1, 2, ..., N in order.
\* Fails: iteration_count counts "## Iteration" in the header's plan line too.
C1_ResumeAtNextNumber ==
    /\ RunEntered => start_iteration = NumRecords(content_at_start) + 1
    /\ RecordNumbers(content) = Numbered(NumRecords(content))

\* ------------------------------------------------------------------------
\* C2
\* ------------------------------------------------------------------------
\* C2: when an iteration whose agent was spawned and exited goes on to the
\* sleep or ends the run, its record has been appended, whatever happened in
\* the auto-commit and validation steps (a failing append itself set aside).
\* Fails: an error of git_auto_commit or run_validation leaves run() first.
C2_RecordAppendedOnceAgentRan ==
    ( /\ pc \in {"sleep", "done"}
      /\ HasStep("claude")
      /\ outcome.error # "Failed to write to progress file" )
    => <<Marker, ToString(iteration)>> \in AddedLines

\* ------------------------------------------------------------------------
\* C3
\* ------------------------------------------------------------------------
\* C3: in an iteration the quality gates are evaluated, and a gate command is
\* executed, only if the validation command exited zero and the completion
\* signal is in the agent output of that iteration; and an iteration that
\* reaches step 8 (its record is appended) with both evaluates them.
C3_GatesIffValidationAndSignal ==
    /\ (HasStep("quality gates") \/ HasStep("gate"))
          => (ValidationExitedZero /\ SignalInOutput)
    /\ (HasStep("append") /\ ValidationExitedZero /\ SignalInOutput)
          => HasStep("quality gates")

\* An iteration that ran its gates, had one fail and went on.
C3_Witness ==
    /\ pc = "sleep"
    /\ HasStep("gate")
    /\ ValidationExitedZero /\ SignalInOutput

\* ------------------------------------------------------------------------
\* C4
\* ------------------------------------------------------------------------
C4_State ==
    /\ outcome.kind = "Complete" =>
          /\ pc = "done"
          /\ outcome.iterations = iteration
          /\ ValidationExitedZero /\ SignalInOutput /\ EveryGatePassed
          /\ steps[Len(steps)].op \in {"quality gates", "gate"}
    /\ ( /\ pc \in {"sleep", "done"}
         /\ HasStep("quality gates")
         /\ EveryGatePassed )
          => outcome = Complete(iteration)
    /\ (gate_result.called /\ gate_result.ok /\ ~gate_result.all_passed)
          => (pc = "sleep" /\ outcome = NoOutcome)

C4_Step ==
    /\ pc = "sleep" => (pc' = "loop" /\ iteration' = iteration + 1)
    /\ (pc = "loop" /\ iteration <= loop_end)
          => (pc' = "claude" /\ iteration' = iteration)
    /\ outcome.kind = "Complete" => runs' = runs + 1

C5_SpawnFailureEndsRun ==
    outcome.kind = "Error" =>
        /\ pc = "done"
        /\ outcome.iterations = iteration - 1
        /\ content = content_before
        /\ <<Marker, ToString(iteration)>> \notin { content[i] : i \in DOMAIN content }
        /\ steps[Len(steps)].op = "load config"
        /\ \A op \in {"claude", "git", "validation", "append", "gate", "quality gates"} :
              ~HasStep(op)

\* The agent cannot be spawned in the second iteration of a run.
C5_Witness ==
    /\ outcome.kind = "Error"
    /\ iteration = start_iteration + 1
    /\ NumRecords(content) = NumRecords(content_at_start) + 1

\* ------------------------------------------------------------------------
\* C6
\* ------------------------------------------------------------------------
\* C6: a run on a store of N records with max_iterations M >= N, not edited,
\* in which no iteration completes and no step errors, performs M - N
\* iterations, returns MaxIterations{M} and leaves M records.
\* Fails with C1: the start is not N + 1 when the plan line holds the marker.
C6_ExhaustedRunLeavesMaxRecords ==
    ( /\ pc = "done"
      /\ outcome.kind = "MaxIterations"
      /\ edits = 0
      /\ loop_end >= NumRecords(content_at_start) )
    => /\ agent_calls = loop_end - NumRecords(content_at_start)
       /\ outcome.iterations = loop_end
       /\ NumRecords(content) = loop_end

\* ------------------------------------------------------------------------
\* C7
\* ------------------------------------------------------------------------
\* C7: a non-zero exit of a git command (status, add, commit) never ends the
\* run.  Fails: has_changes and auto_commit return the error, git_auto_commit
\* and run() propagate it.
C7_NonZeroExitNeverEndsRun ==
    ~(pc = "done" /\ outcome.kind = "Err" /\ outcome.error \in GitErrors)

\* ------------------------------------------------------------------------
\* C8
\* ------------------------------------------------------------------------
\* C8: a run that has invoked the agent ends with a LoopOutcome.
\* Fails: the errors of steps 4 to 8 leave run() as Err, not as a LoopOutcome.
C8_RunEndsWithLoopOutcome ==
    (pc = "done" /\ agent_calls >= 1)
    => outcome.kind \in {"Complete", "MaxIterations", "Stopped", "Error"}

\* ------------------------------------------------------------------------
\* C9
\* ------------------------------------------------------------------------
WellFormed(gate) == (gate.command = None) # (gate.script = None)

\* What sh is handed for a well-formed gate.
Invocation(gate) ==
    IF gate.script = None THEN gate.command ELSE <<"bash ">> \o gate.script

\* run_quality_gates returned, every gate of the list is well formed and
\* every sh could be spawned.
GatesRan ==
    /\ pc = "returned"
    /\ \A i \in DOMAIN config.quality_gates : WellFormed(config.quality_gates[i])
    /\ \A i \in DOMAIN steps : steps[i].exit # "spawn_error"

ResolvedGate ==
    config.quality_gates[CHOOSE i \in DOMAIN config.quality_gates :
                            ToString(i) = steps[1].arg[1]]

\* C10: get_command fails if and only if the gate has both a command and a
\* script, or neither; with only a command it yields that command, with
\* only a script it yields "bash " followed by the script path.
C10_GateResolution ==
    pc = "resolved" =>
        LET gate == ResolvedGate
            both == gate.command # None /\ gate.script # None
            neither == gate.command = None /\ gate.script = None
        IN  /\ ~resolved.ok <=> (both \/ neither)
            /\ (gate.command # None /\ gate.script = None)
                  => (resolved.ok /\ resolved.val = gate.command)
            /\ (gate.command = None /\ gate.script # None)
                  => (resolved.ok /\ resolved.val = <<"bash ", gate.script[1]>>)

\* A gate with only a script is resolved to the bash invocation.
C10_Witness ==
    /\ pc = "resolved"
    /\ ResolvedGate.command = None
    /\ ResolvedGate.script # None
    /\ resolved = Ok(<<"bash ">> \o ResolvedGate.script)

\* ------------------------------------------------------------------------
\* C11
\* ------------------------------------------------------------------------
IsPrefix(a, b) == Len(a) <= Len(b) /\ SubSeq(b, 1, Len(a)) = a

C11_Step ==
    /\ IsPrefix(content, content')
    /\ file_exists => file_exists'
    /\ NumRecords(content') >= NumRecords(content)
    /\ (pc = "log" /\ content' # content) =>
          /\ Len(content') = Len(content) + 6
          /\ content'[Len(content) + 1] = <<Marker, ToString(iteration)>>
          /\ NumRecords(content') = NumRecords(content) + 1

\* C11: the progress file is append-only under the steps of the run command:
\* every step leaves the previous content as a prefix of the new content, so
\* the number of records never decreases and no record is changed or removed;
\* the append of step 7 adds one record after the previous content.
C11_AppendOnly == [][C11_Step]_vars

\* The second record of a run has been appended after the first.
C11_Witness ==
    /\ pc = "sleep"
    /\ Len(content) = Len(content_at_start) + 12
    /\ NumRecords(content) = NumRecords(content_at_start) + 2

\* ------------------------------------------------------------------------
\* C12
\* ------------------------------------------------------------------------
\* The store holds the header that the first run wrote and everything that
\* was in it when the current command started.
C12_State ==
    file_exists =>
        /\ Len(content) >= Len(InitHeader(plan_path))
        /\ SubSeq(content, 1, Len(InitHeader(plan_path))) = InitHeader(plan_path)
        /\ IsPrefix(content_at_start, content)

\* A command that starts: an existing store is left as it is, a missing one
\* is created with the header only.
C12_Step ==
    runs' = runs + 1 =>
        /\ file_exists => (file_exists' /\ content' = content)
        /\ (~file_exists /\ file_exists') => content' = InitHeader(plan_path)

\* C12: starting a run never clobbers an existing store: the run command
\* initializes the progress file only when it does not exist, so after any
\* sequence of run commands the header of the first run and all earlier
\* records are still there.
C12_RunKeepsExistingStore == [](C12_State) /\ [][C12_Step]_vars

\* A second command has started on a store that holds a record.
C12_Witness ==
    /\ runs = 2
    /\ pc = "loop"
    /\ NumRecords(content) >= 1
    /\ content = content_at_start

\* ------------------------------------------------------------------------
\* C13
\* ------------------------------------------------------------------------
\* The last call of the history.
LastOp == IF steps = <<>> THEN "" ELSE steps[Len(steps)].op

\* C13: the resume point is read off the store alone: when the store was cut
\* so that N' records remain, run() starts at iteration N' + 1.
\* Fails with C1: the '## Iteration' of the plan line of the header, which a
\* cut after the header leaves in place, is counted as a record.
C13_ResumeFollowsStore ==
    (LastOp = "resume" /\ HasStep("truncate"))
    => start_iteration = NumRecords(content) + 1

\* ------------------------------------------------------------------------
\* C14
\* ------------------------------------------------------------------------
\* read() was called and the store was not written since: only read(),
\* iteration_count() and the start of run() were called after it.
NoWriteSinceRead ==
    \E i \in DOMAIN steps :
        /\ steps[i].op = "read"
        /\ \A j \in (i + 1)..Len(steps) : steps[j].op \in {"read", "count", "resume"}

\* The step is a call of read().
IsRead ==
    /\ Len(steps') = Len(steps) + 1
    /\ steps'[Len(steps')].op = "read"

C14_Step ==
    IsRead =>
        /\ content' = content
        /\ file_exists' = file_exists
        /\ NoWriteSinceRead =>
              /\ progress'.started = progress.started
              /\ progress'.plan_path = progress.plan_path
              /\ progress'.last_status = progress.last_status

\* C14: read() leaves the store as it is, and a read() that follows a read()
\* with no write of the store in between returns the same started time, plan
\* reference and iteration count.
C14_ReadIdempotent == [][C14_Step]_vars

\* read() was called twice in a row on a store that holds a header and a
\* record.
C14_Witness ==
    /\ Len(steps) >= 2
    /\ steps[Len(steps)].op = "read"
    /\ steps[Len(steps) - 1].op = "read"
    /\ progress.started # <<>>
    /\ progress.plan_path # <<>>
    /\ progress.last_status # <<>>

\* ------------------------------------------------------------------------
\* C15
\* ------------------------------------------------------------------------
\* The history is initialize(plan) followed by appends, with read() and
\* iteration_count() anywhere after it.
InitThenAppends ==
    /\ steps # <<>>
    /\ steps[1].op = "init"
    /\ \A i \in 2..Len(steps) : steps[i].op \in {"append", "read", "count", "resume"}

AppendsDone == Len(SelectSeq(steps, LAMBDA st : st.op = "append"))

\* The count that read() derived, read back from the status it returns.
ReadCount(p) ==
    IF p.last_status = <<>> THEN 0
    ELSE CHOOSE n \in 0..(MaxOps + 1) : ToString(n) = p.last_status[1][1]

C15_CountAfterAppends == (LastOp = "count" /\ InitThenAppends) => counted = AppendsDone

C15_CountOfMissingStore == (LastOp = "count" /\ ~file_exists) => counted = 0

C15_CountMatchesRead == (LastOp = "count" /\ NoWriteSinceRead) => counted = ReadCount(progress)

\* C15: after initialize(plan) and k appends iteration_count() returns k, for
\* any plan reference; it returns 0 when the store does not exist; and it
\* equals the count read() derives from the same content.
\* Fails in its first part: the plan line of the header is counted when the
\* plan reference holds "## Iteration".
C15_IterationCount ==
    /\ C15_CountAfterAppends
    /\ C15_CountOfMissingStore
    /\ C15_CountMatchesRead

\* ------------------------------------------------------------------------
\* C16
\* ------------------------------------------------------------------------
\* The agent of the current iteration was spawned and exited non-zero.
AgentExitedNonZero ==
    \E i \in DOMAIN steps : steps[i].op = "claude" /\ steps[i].exit = "nonzero"

C16_State ==
    /\ outcome.kind = "Error" => ~HasStep("claude")
    /\ (AgentExitedNonZero /\ pc \in {"sleep", "done"} /\ outcome.kind # "Err")
          => HasStep("append")
    /\ (AgentExitedNonZero /\ HasStep("append"))
          => /\ promise_found = SignalInOutput
             /\ HasStep("validation")
             /\ <<"Promise:", IF SignalInOutput THEN "FOUND" ELSE "NOT FOUND">>
                   \in AddedLines

C16_Step ==
    (pc = "claude" /\ agent_calls' = agent_calls + 1)
    => (pc' = "commit" /\ outcome' = outcome /\ iteration' = iteration)

\* C16: an agent that is spawned and exits, with whatever status, does not
\* end the run: the iteration goes on to the auto-commit, the validation, the
\* signal test on the captured output and the append, and the Error outcome
\* is never produced by an agent that was spawned.
C16_NonZeroAgentExitGoesOn == [](C16_State) /\ [][C16_Step]_vars

\* A run is Complete in an iteration whose agent exited non-zero.
C16_Witness ==
    /\ outcome.kind = "Complete"
    /\ AgentExitedNonZero

\* ------------------------------------------------------------------------
\* C17
\* ------------------------------------------------------------------------
C17_Step ==
    (pc = "loop" /\ iteration <= loop_end /\ ~cfgFile.ok)
    => /\ pc' = "claude"
       /\ config' = config
       /\ iteration' = iteration
       /\ outcome' = outcome

\* C17: when the reload of the configuration at the start of iteration n
\* fails, the iteration runs with the snapshot held before (that of iteration
\* n-1 or of the load before the loop); the run neither ends nor skips n.
C17_ReloadFailureKeepsSnapshot == [][C17_Step]_vars

\* The second iteration of a run goes on after its reload has failed.
C17_Witness ==
    /\ pc = "claude"
    /\ ~cfgFile.ok
    /\ iteration = start_iteration + 1
    /\ steps[Len(steps)].op = "load config"

\* ------------------------------------------------------------------------
\* C18
\* ------------------------------------------------------------------------
\* What the current iteration did is what the snapshot says.
C18_State ==
    /\ \A i \in DOMAIN steps :
          steps[i].op = "validation" => steps[i].arg = <<config.validation_command>>
    /\ HasStep("git") => config.auto_commit
    /\ (pc \in {"validate", "log", "sleep"} /\ config.auto_commit) => HasStep("git")
    /\ Len(GateExits) <= Len(config.quality_gates)
    /\ \A i \in DOMAIN GateExits :
          GateExits[i].arg = Invocation(config.quality_gates[i])
    /\ HasStep("append") => promise_found = SignalInOutput

C18_Step ==
    /\ pc \in {"claude", "commit", "validate", "log", "sleep"} => config' = config
    /\ (pc = "loop" /\ pc' = "claude" /\ cfgFile.ok) => config' = cfgFile.cfg
    /\ pc = "sleep" =>
          (steps' = << Step("sleep", <<>>, "") >>) = (iteration < config.max_iterations)

Ran(cmd) ==
    \E i \in DOMAIN steps : steps[i].op = "git" /\ steps[i].arg[1] = cmd

RanWith(cmd, exit) ==
    \E i \in DOMAIN steps :
        steps[i].op = "git" /\ steps[i].arg[1] = cmd /\ steps[i].exit = exit

C19_State ==
    /\ Ran("git add") <=>
          /\ config.auto_commit
          /\ RanWith("git rev-parse", "zero")
          /\ RanWith("git status", "dirty")
    /\ Ran("git commit") <=> RanWith("git add", "zero")
    /\ \A i \in DOMAIN steps :
          (steps[i].op = "git" /\ steps[i].arg[1] = "git commit")
          => steps[i].arg = <<"git commit", "rwl: iteration ", ToString(iteration)>>
    /\ (RanWith("git status", "clean") \/ RanWith("git rev-parse", "nonzero"))
          => /\ ~Ran("git add") /\ ~Ran("git commit")
             /\ ~(outcome.kind = "Err" /\ outcome.error \in GitErrors)

C19_Step ==
    (pc = "commit" /\ (RanWith("git status", "clean"))')
    => (pc' = "validate" /\ outcome' = outcome)

\* C19: in iteration n the stage-and-commit is invoked if and only if
\* auto_commit is enabled, the directory is a git repository and git status
\* reports changes; the commit message is the template with {iteration}
\* replaced by n.  With no changes no add or commit is run, no error is
\* raised and the iteration goes on to the validation.
C19_CommitIffChanges == [](C19_State) /\ [][C19_Step]_vars

\* The second iteration of a run has committed its changes.
C19_Witness ==
    /\ pc = "validate"
    /\ iteration = start_iteration + 1
    /\ RanWith("git commit", "zero")

\* ------------------------------------------------------------------------
\* C20
\* ------------------------------------------------------------------------
\* git status reported changes, and git commit then exited non-zero
\* reporting "nothing to commit".
CommitFoundNothing ==
    /\ RanWith("git status", "dirty")
    /\ \/ RanWith("git commit", "nothing to commit on stdout")
       \/ RanWith("git commit", "nothing to commit on stderr")

\* C20: when git commit finds nothing to commit after has_changes reported
\* changes, stage-and-commit succeeds and the iteration goes on.
\* Fails: auto_commit looks for "nothing to commit" in the stderr of git
\* commit only, and git reports it on stdout.
C20_NothingToCommitIsSuccess ==
    CommitFoundNothing =>
        /\ ~(outcome.kind = "Err" /\ outcome.error \in GitErrors)
        /\ pc = "done" => (HasStep("validation") \/ outcome.kind = "Err")

\* ------------------------------------------------------------------------
\* C21
\* ------------------------------------------------------------------------
\* The place of a step in the body of the loop (runner.rs 74-153).  The
\* prompt is built by the step that reloads the configuration and the signal
\* is tested by the step that appends the record.
StepRank(op) ==
    CASE op = "sleep"         -> 0
      [] op = "load config"   -> 1
      [] op = "claude"        -> 3
      [] op = "git"           -> 4
      [] op = "validation"    -> 5
      [] op = "append"        -> 7
      [] op = "quality gates" -> 8
      [] op = "gate"          -> 9
      [] OTHER                -> 10

\* The number of the last record of a text, "" when it has none.
LastRecord(text) ==
    IF RecordNumbers(text) = <<>> THEN ""
    ELSE RecordNumbers(text)[Len(RecordNumbers(text))]

\* C21: the steps of an iteration happen one after the other in the order
\* sleep (before the iteration), configuration reload, agent invocation,
\* commit (optional), validation, record append, gate evaluation (optional);
\* only the git and the gate commands repeat.  The agent of iteration n + 1
\* is invoked only when the record of n is the last record of the store,
\* appended after the commit and the validation of n and before its gates.
C21_StepsInOrder ==
    /\ \A i, j \in DOMAIN steps :
          i < j => /\ StepRank(steps[i].op) <= StepRank(steps[j].op)
                   /\ StepRank(steps[i].op) = StepRank(steps[j].op)
                         => steps[i].op \in {"git", "gate"}
    /\ \A i \in DOMAIN steps : StepRank(steps[i].op) < 10
    /\ (HasStep("claude") /\ iteration > start_iteration)
          => LastRecord(content_before) = ToString(iteration - 1)
    /\ HasStep("append") => LastRecord(content) = ToString(iteration)
    /\ HasStep("quality gates") => HasStep("append")

\* A second iteration that slept, committed, validated, appended and ran gates.
C21_Witness ==
    /\ Len(steps) >= 7
    /\ steps[1].op = "sleep" /\ steps[2].op = "load config"
    /\ HasStep("claude") /\ HasStep("git") /\ HasStep("validation")
    /\ HasStep("append") /\ HasStep("gate")
    /\ iteration > start_iteration

\* ------------------------------------------------------------------------
\* C22
\* ------------------------------------------------------------------------
Sleeps == SelectSeq(steps, LAMBDA st : st.op = "sleep")

\* C22: after iteration n the runner sleeps exactly when the run did not end
\* at n and n < max_iterations; every iteration after the first of the run
\* is preceded by exactly one sleep; no sleep follows the last iteration of
\* the run, nor a Complete or an Error.
\* Fails when max_iterations is changed in rwl.yml during the run: the range
\* of the loop keeps the value read at the entry of the loop, the sleep is
\* decided by the value reloaded in iteration n.
C22_OneSleepBetweenIterations ==
    /\ (pc = "loop" /\ iteration > start_iteration)
          => (steps = << Step("sleep", <<>>, "") >>
                <=> iteration - 1 < config.max_iterations)
    /\ (pc \in {"claude", "commit", "validate", "log", "sleep"}
          /\ iteration > start_iteration)
          => (Len(Sleeps) = 1 /\ steps[1].op = "sleep")
    /\ pc = "done" => LastOp # "sleep"

\* ------------------------------------------------------------------------
\* C23
\* ------------------------------------------------------------------------
StoreErrors == {"Failed to read progress file", "Failed to write to progress file"}

\* C23: a run that ended because the progress file could not be read or
\* could not be written has invoked no agent and has run no commit and no
\* validation: it was aborted before the loop started.
\* Fails for a file that cannot be written: the file is written by step 7
\* only, after the agent, the commit and the validation of the iteration.
C23_StoreFailureAbortsBeforeLoop ==
    outcome.error \in StoreErrors
       => /\ agent_calls = 0
          /\ ~HasStep("claude") /\ ~HasStep("git") /\ ~HasStep("validation")

\* ------------------------------------------------------------------------
\* C24
\* ------------------------------------------------------------------------
\* The snapshot of the iteration lists a gate that get_command rejects, and
\* the gates were evaluated without a shell that failed to start.
EvaluatedMalformedGates ==
    /\ HasStep("quality gates")
    /\ \E i \in DOMAIN config.quality_gates : ~get_command(config.quality_gates[i]).ok
    /\ \A i \in DOMAIN steps : steps[i].exit # "spawn_error"

\* C24: when the gates of an iteration are evaluated and one of them has both
\* or neither of command and script, no gate command of that evaluation is
\* executed and the run is not aborted: it goes on as after a failed gate.
\* Fails twice: the gates listed before the malformed one are executed, and
\* the error is propagated out of run().
C24_MalformedGateAbortsOnlyGates ==
    EvaluatedMalformedGates => (~HasStep("gate") /\ outcome.kind # "Err")

\* ------------------------------------------------------------------------
\* C25
\* ------------------------------------------------------------------------
AtMost(m, n) == IF m - n > 0 THEN m - n ELSE 0

\* C25: a run that starts on a store of N records with max_iterations M at
\* the entry of the loop invokes the agent at most max(0, M - N) times,
\* whatever is written into rwl.yml meanwhile; and when every subprocess
\* exits, a run that was started returns.
C25_RunTerminates ==
    /\ [](agent_calls <= AtMost(loop_end, NumRecords(content_at_start)))
    /\ (pc \in {"loop", "claude", "commit", "validate", "log", "sleep"}) ~> (pc = "done")

\* A run on a store of one record that has invoked the agent M - N = 2 times
\* and has returned.
C25_Witness ==
    /\ pc = "done"
    /\ NumRecords(content_at_start) = 1
    /\ agent_calls = 2
    /\ agent_calls = AtMost(loop_end, NumRecords(content_at_start))

\* ------------------------------------------------------------------------
\* C26
\* ------------------------------------------------------------------------
\* The records of a text: its lines from the first heading of a record on.
RecordsOf(text) ==
    IF LineOf(text, Marker) = 0 THEN <<>>
    ELSE SubSeq(text, LineOf(text, Marker), Len(text))

\* The file init writes for the plan, followed by the records of a text.
WellFormedTwin(text) == InitHeader(plan_path) \o RecordsOf(text)

StartedParses(text) ==
    \E i \in DOMAIN text :
        /\ text[i] # <<>> /\ Head(text[i]) = "# Started:"
        /\ parse_from_str(Tail(text[i])) # <<>>

\* C26: read() of a file whose header was edited by hand returns no start
\* time when no "# Started:" line parses, no plan reference when there is no
\* "# Plan:" line, and the iteration count it returns for the well-formed
\* header followed by the same records.
\* Fails with C1: the '## Iteration' of the plan line is counted, so removing
\* that line changes the count.
C26_ReadOfEditedHeader ==
    LastOp = "read"
       => /\ ~StartedParses(content) => progress.started = None
          /\ LineOf(content, "# Plan:") = 0 => progress.plan_path = None
          /\ progress.last_status = read(TRUE, WellFormedTwin(content)).last_status

\* ------------------------------------------------------------------------
\* C27
\* ------------------------------------------------------------------------
\* What the current iteration has appended to the progress file.
AddedText == SubSeq(content, Len(content_before) + 1, Len(content))

\* C27: the record appended for iteration n says Validation PASSED exactly
\* when the validation command exited zero, Promise FOUND exactly when the
\* captured output (stdout, a newline, stderr) holds the signal letter for
\* letter, and its summary follows from these two alone: "Complete" when
\* both hold, also when the gates of the iteration then fail.
C27_RecordStatesTheIteration ==
    HasStep("append")
       => AddedText =
            << <<Marker, ToString(iteration)>>,
               <<"Timestamp:", Timestamp>>,
               <<"Validation:", IF ValidationExitedZero THEN "PASSED" ELSE "FAILED">>,
               <<"Promise:", IF SignalInOutput THEN "FOUND" ELSE "NOT FOUND">>,
               <<"Summary:",
                 IF ValidationExitedZero /\ SignalInOutput THEN "Complete"
                 ELSE IF ValidationExitedZero
                      THEN "Validation passed, waiting for completion"
                      ELSE "Validation failed">>,
               <<>> >>

\* An iteration whose record says Complete and whose gates failed: the run
\* goes on.
C27_Witness ==
    /\ pc = "sleep"
    /\ <<"Summary:", "Complete">> \in AddedLines
    /\ gate_result.called /\ gate_result.ok /\ ~gate_result.all_passed

\* ------------------------------------------------------------------------
\* C28
\* ------------------------------------------------------------------------
\* A process entered run() while another one was in its loop.
Overlapped ==
    \E i, j \in DOMAIN steps :
        /\ i < j
        /\ steps[i].op = "start" /\ steps[j].op = "start"
        /\ \A r \in (i + 1)..(j - 1) : steps[r].op # "return"

UniqueNumbers(text) ==
    \A i, j \in DOMAIN RecordNumbers(text) :
        i # j => RecordNumbers(text)[i] # RecordNumbers(text)[j]

\* C28: the record numbers of the store are unique as long as no loop process
\* was started while another one was running; nothing more is guaranteed:
\* two processes that overlap can both start at N + 1 and both append a
\* record numbered N + 1.
C28_UniqueOnlyWhenAlone ==
    /\ ~Overlapped => UniqueNumbers(content)
    /\ \A p \in Procs :
          writers[p].pc # "new"
             => /\ writers[p].start <= writers[p].iteration
                /\ \E i \in DOMAIN steps :
                      /\ steps[i] = Step("start", <<ToString(p)>>, ToString(writers[p].start))

\* Both processes have started at N + 1 on a store of N records and the
\* store holds two records numbered N + 1.
C28_Witness ==
    /\ Overlapped
    /\ \A p \in Procs : writers[p].start = NumRecords(content_at_start) + 1
    /\ \E i, j \in DOMAIN RecordNumbers(content) :
          /\ i # j
          /\ RecordNumbers(content)[i] = ToString(NumRecords(content_at_start) + 1)
          /\ RecordNumbers(content)[j] = ToString(NumRecords(content_at_start) + 1)

\* ------------------------------------------------------------------------
\* C29
\* ------------------------------------------------------------------------
InLoop == pc \in {"loop", "claude", "commit", "validate", "log", "sleep"}

C29_State ==
    /\ (pc \in {"claude", "commit", "validate", "log", "sleep"})
          => (start_iteration <= iteration /\ iteration <= loop_end)
    /\ outcome.kind = "MaxIterations"
          => /\ outcome.iterations = config.max_iterations
             /\ agent_calls = AtMost(loop_end + 1, start_iteration)
             /\ iteration = start_iteration + agent_calls
    /\ (pc = "loop" /\ iteration > start_iteration)
          => (HasStep("sleep") <=> iteration - 1 < config.max_iterations)

C29_Step ==
    /\ InLoop => loop_end' = loop_end /\ start_iteration' = start_iteration
    /\ cfgFile' # cfgFile => iteration' = iteration /\ pc' = pc

\* C29: the iterations of a run are start..=M with the max_iterations M that
\* was loaded before the loop: a change of max_iterations in rwl.yml during
\* the run changes neither the range nor the iteration in progress, and a
\* run that exhausts the range has invoked the agent once per iteration of
\* it.  The value reloaded in an iteration decides its sleep, and the value
\* held at the end is the count of MaxIterations.
C29_RangeFixedAtLoopEntry == [](C29_State) /\ [][C29_Step]_vars

\* A run that returned MaxIterations with a count that is neither the end of
\* its range nor its last iteration.
C29_Witness ==
    /\ outcome.kind = "MaxIterations"
    /\ agent_calls >= 1
    /\ outcome.iterations # loop_end
    /\ outcome.iterations # iteration - 1

C31_OutcomeCountsRecords ==
    /\ outcome.kind = "Complete"
          => /\ NumRecords(content) = outcome.iterations
             /\ LastRecord(content) = ToString(outcome.iterations)
    /\ outcome.kind = "Error" => NumRecords(content) = outcome.iterations

\* ------------------------------------------------------------------------
\* C32
\* ------------------------------------------------------------------------
C32_State ==
    outcome.kind = "Complete" => agent_calls >= 1

C32_Step ==
    (outcome.kind = "Complete" /\ runs' = runs + 1)
       => /\ content' = content
          /\ start_iteration' = outcome.iterations + 1
          /\ iteration' = outcome.iterations + 1
          /\ agent_calls' = 0
          /\ outcome'.kind = "None" /\ pc' = "loop"
          /\ outcome.iterations < loop_end' => InRange(iteration', loop_end')

\* C32: a run started after a run that returned Complete{n} finds nothing
\* but the records in the store: it starts at iteration n + 1, which is in
\* its range when n < max_iterations, and it never returns Complete without
\* an agent invocation of its own.
C32_CompletionNotPersisted == [](C32_State) /\ [][C32_Step]_vars

\* The run after a Complete has invoked the agent again.
C32_Witness ==
    /\ runs = 2
    /\ agent_calls = 1
    /\ \E i, j, k \in DOMAIN steps :
          /\ i < j /\ j < k
          /\ steps[i].op = "gate" /\ steps[j].op = "rwl run" /\ steps[k].op = "claude"
          /\ \A g \in i..(j - 1) : steps[g].op = "gate" /\ steps[g].exit = "zero"

\* ------------------------------------------------------------------------
\* C33
\* ------------------------------------------------------------------------
\* The successful commits among the steps, as the iteration numbers of their
\* messages.
CommitsMade ==
    SelectSeq(steps, LAMBDA st : st.op = "git" /\ st.arg[1] = "git commit"
                                  /\ st.exit = "zero")

\* The command was started again after a stop before the append.
RestartedAfterStop ==
    \E j \in DOMAIN steps :
        /\ steps[j].op = "rwl run"
        /\ \A i \in 1..(j - 1) : steps[i].op # "append"

C33_State ==
    /\ UniqueNumbers(content)
    /\ RestartedAfterStop
          => \A i \in DOMAIN CommitsMade :
                CommitsMade[i].arg = <<"git commit", "rwl: iteration ", ToString(iteration)>>

C33_Step ==
    (pc = "done" /\ AgentRanNoRecord /\ runs' = runs + 1)
       => /\ \A i \in DOMAIN RecordNumbers(content) :
                RecordNumbers(content)[i] # ToString(iteration)
          /\ content' = content
          /\ start_iteration' = iteration
          /\ iteration' = iteration

\* C33: a run that stopped after the agent invocation of iteration n and
\* before the append has left no record of n, and the next run starts at n
\* again; every commit made by the stopped iteration and by its repetition
\* carries the number n, and no two records of the store have one number.
C33_StoppedIterationIsRepeated == [](C33_State) /\ [][C33_Step]_vars

\* Iteration n was committed by the run that stopped and again by the next
\* run, which has appended the one record of n.
C33_Witness ==
    /\ RestartedAfterStop
    /\ Len(CommitsMade) = 2
    /\ \E i, j, k \in DOMAIN steps :
          /\ i < j /\ j < k
          /\ steps[i] = CommitsMade[1] /\ steps[j].op = "rwl run"
          /\ steps[k] = CommitsMade[2]
    /\ steps[Len(steps)].op = "append"
    /\ LastRecord(content) = ToString(iteration)

\* ------------------------------------------------------------------------
\* C34
\* ------------------------------------------------------------------------
\* C34: in an iteration whose snapshot lists no quality gate, whose
\* validation exited zero and whose output holds the signal, the evaluation
\* of the gates runs no command and returns all_passed with no results, and
\* run() returns Complete with the number of that iteration.
C34_NoGatesComplete ==
    (HasStep("append") /\ config.quality_gates = <<>>
        /\ ValidationExitedZero /\ SignalInOutput)
       => /\ HasStep("quality gates") /\ ~HasStep("gate")
          /\ gate_result = [called |-> TRUE, ok |-> TRUE, all_passed |-> TRUE,
                            results |-> <<>>]
          /\ pc = "done"
          /\ outcome = Complete(iteration)

\* A run that returned Complete on an empty list of gates.
C34_Witness ==
    /\ outcome.kind = "Complete"
    /\ config.quality_gates = <<>>
    /\ gate_result.called /\ gate_result.results = <<>>

\* ------------------------------------------------------------------------
\* C35
\* ------------------------------------------------------------------------
\* C35: run() never returns Stopped: a run that has returned a LoopOutcome
\* has returned Complete, MaxIterations or Error.
C35_NeverStopped ==
    /\ outcome.kind # Stopped(0, "").kind
    /\ (pc = "done" /\ RunEntered /\ outcome.kind # "Err")
          => outcome.kind \in {"Complete", "MaxIterations", "Error"}

\* A second run of the command that has returned a LoopOutcome after its
\* agent ran.
C35_Witness ==
    /\ pc = "done" /\ RunEntered
    /\ runs = 2 /\ agent_calls >= 1
    /\ outcome.kind \in {"Complete", "MaxIterations", "Error"}

\* ------------------------------------------------------------------------
\* C36
\* ------------------------------------------------------------------------
C36_State ==
    /\ pc = "claude" => iteration = start_iteration + agent_calls
    /\ pc \in {"commit", "validate", "log", "sleep"}
          => iteration = start_iteration + agent_calls - 1

C36_Step ==
    /\ InLoop => start_iteration' = start_iteration
    /\ edits' # edits
          => iteration' = iteration /\ pc' = pc /\ steps' = steps
    /\ (pc = "sleep" /\ pc' = "loop") => iteration' = iteration + 1
    /\ (InLoop /\ pc # "sleep") => iteration' = iteration
    /\ (pc = "log" /\ edits' = edits /\ content' # content)
          => /\ Len(content') > Len(content)
             /\ SubSeq(content', 1, Len(content)) = content
             /\ content'[Len(content) + 1] = <<Marker, ToString(iteration)>>
    /\ (runs' = runs + 1 /\ pc' = "loop")
          => start_iteration' = iteration_count(file_exists', content') + 1

\* C36: the resume point is read from the store once, before the loop: the
\* iterations of a run are numbered start, start+1, start+2, ... one agent
\* invocation each, and each record is appended under the number of its
\* iteration, whatever somebody else adds to or removes from the store during
\* the run; such a change moves neither the start nor the iteration in
\* progress, and the next run starts from the count of the changed store.
C36_ResumePointReadOnce == [](C36_State) /\ [][C36_Step]_vars

\* The second iteration of a run appended its record under start+1 although
\* the store was changed during the run and its count no longer agrees.
C36_Witness ==
    /\ plan_path = <<"plan.md">>
    /\ edits >= 1
    /\ iteration = start_iteration + 1
    /\ steps # <<>> /\ steps[Len(steps)].op = "append"
    /\ LastRecord(content) = ToString(iteration)
    /\ iteration_count(file_exists, content) # iteration

====
